---- MODULE Spec2Model ----
(***************************************************************************)
(* Model of the blogicum blog application (blog/models.py, blog/forms.py,  *)
(* blog/views.py): the database rows of Post, Category, Location, Comment  *)
(* and User, the class-based views that read and write them, and the       *)
(* on_delete rules of the foreign keys.  One action is one HTTP request    *)
(* (or one deletion / flag change done through the ORM); `last` holds the  *)
(* request that was served last and its response.                          *)
(***************************************************************************)
EXTENDS Integers, Sequences, FiniteSets, TLC

\* ---------------------------------------------------------------- bounds
MaxPosts == 2
MaxComments == 2
MaxTime == 1

\* views.py:15
POSTS_PAGIN == 10

\* ---------------------------------------------------------------- universe
Users == {"u1", "u2"}
Anon == "anonymous"
Slugs == {"c1", "c2"}
Locs == {"l1"}
Texts == {"a", "b"}
None == "None"
NoId == 0
NoUrl == <<>>

PostIds == 1..MaxPosts
CommentIds == 1..MaxComments
PubDates == {0, MaxTime}

VARIABLES
    users,        \* rows of User: the set of existing users
    categories,   \* rows of Category: slug -> is_published
    locations,    \* rows of Location
    posts,        \* rows of Post: id -> record
    comments,     \* rows of Comment: id -> record
    nextPost,     \* next primary key of Post
    nextComment,  \* next primary key of Comment
    now,          \* timezone.now()
    last          \* the request served last and its response

vars == <<users, categories, locations, posts, comments, nextPost, nextComment, now, last>>
db == <<users, categories, locations, posts, comments, nextPost, nextComment, now>>

\* The requesters a request can come from: a logged-in existing user or nobody.
Requesters == users \cup {Anon}

\* ---------------------------------------------------------------- helpers
Min(a, b) == IF a < b THEN a ELSE b

Perms(S) ==
    {s \in [1..Cardinality(S) -> S] :
        \A i, j \in 1..Cardinality(S) : i # j => s[i] # s[j]}

\* f without the keys in D
Without(f, D) == [k \in (DOMAIN f) \ D |-> f[k]]

\* f with the key k set to v
With(f, k, v) == [x \in (DOMAIN f) \cup {k} |-> IF x = k THEN v ELSE f[x]]

\* Count("comment"): the number of comments joined to the post
comment_count(p) == Cardinality({c \in DOMAIN comments : comments[c].post = p})

\* category__is_published=True: the join on a NULL category matches no row
category__is_published(post) ==
    /\ post.category # None
    /\ post.category \in DOMAIN categories
    /\ categories[post.category]

\* order_by("-pub_date"): rows with equal pub_date come in any order
order_by_pub_date(S) ==
    {s \in Perms(S) :
        \A i, j \in 1..Len(s) : i < j => posts[s[i]].pub_date >= posts[s[j]].pub_date}

\* paginate_by: the first page
paginate(s) == SubSeq(s, 1, Min(Len(s), POSTS_PAGIN))

\* annotate(comment_count=Count("comment"))
annotate(s) == [i \in 1..Len(s) |-> [id |-> s[i], comment_count |-> comment_count(s[i])]]

\* Comment.Meta.ordering = ('created_at',): the orders in which the rows S of
\* cs can come; rows with equal created_at come in any order
comment_ordering(cs, S) ==
    {s \in Perms(S) :
        \A i, j \in 1..Len(s) : i < j => cs[s[i]].created_at <= cs[s[j]].created_at}

\* ---------------------------------------------------------------- responses
Response(op, user, post_id, comment_id, arg, status, to, body) ==
    [op |-> op, user |-> user, post_id |-> post_id, comment_id |-> comment_id,
     arg |-> arg, status |-> status, to |-> to, body |-> body]

NoRequest == Response("none", None, NoId, NoId, None, None, NoUrl, <<>>)

LoginUrl == <<"login">>
PostDetailUrl(id) == <<"post_detail", id>>
ProfileUrl(u) == <<"profile", u>>

\* ---------------------------------------------------------------- policies
\* get_post_data with the is_published=True filter left out
get_post_data_NoPublishedFilter(post_id) ==
    IF /\ post_id \in DOMAIN posts
       /\ posts[post_id].pub_date <= now
       /\ category__is_published(posts[post_id])
    THEN post_id
    ELSE NoId

\* get_post_data: the primary key of the post, or NoId when get_object_or_404
\* raises Http404
get_post_data(post_id) ==
    IF /\ post_id \in DOMAIN posts
       /\ posts[post_id].pub_date <= now
       /\ posts[post_id].is_published
       /\ category__is_published(posts[post_id])
    THEN post_id
    ELSE NoId

\* check_author_permission that lets everybody through
check_author_permission_Anybody(instance, user) == TRUE

check_author_permission(instance, user) == instance.author = user


\* ---------------------------------------------------------------- on_delete
\* Post.author: on_delete=CASCADE
PostsOfUser(u) == {p \in DOMAIN posts : posts[p].author = u}

\* Comment.post with on_delete=DO_NOTHING: no comment goes with the post
CommentsOfPosts_NoCascade(P) == {}

\* Comment.post: on_delete=CASCADE
CommentsOfPosts(P) == {c \in DOMAIN comments : comments[c].post \in P}

\* Comment.author: on_delete=CASCADE
CommentsOfUser(u) == {c \in DOMAIN comments : comments[c].author = u}

\* Post.category: on_delete=SET_NULL
category_set_null(post, c) ==
    IF post.category = c THEN [post EXCEPT !.category = None] ELSE post

\* Post.location: on_delete=SET_NULL
location_set_null(post, l) ==
    IF post.location = l THEN [post EXCEPT !.location = None] ELSE post

\* ---------------------------------------------------------------- forms
\* PostForm: category is a required choice among the existing categories,
\* location an optional choice among the existing locations.
PostForm_is_valid(form) ==
    /\ form.category \in DOMAIN categories
    /\ form.location \in locations \cup {None}

PostForms ==
    [text : Texts, pub_date : PubDates, category : Slugs \cup {None},
     location : Locs \cup {None}]

\* ---------------------------------------------------------------- post views
\* PostCreateView.form_valid: the new row; is_published takes its default
PostCreateView_form_valid(user, form) ==
    [author |-> user, text |-> form.text, pub_date |-> form.pub_date,
     is_published |-> TRUE, category |-> form.category, location |-> form.location]

\* PostUpdateView (UpdateView.form_valid): the row with the form's fields saved
PostUpdateView_form_valid(post, form) ==
    [post EXCEPT !.text = form.text, !.pub_date = form.pub_date,
                 !.category = form.category, !.location = form.location]

\* POST /posts/create/
PostCreate(user, form) ==
    /\ nextPost <= MaxPosts
    /\ IF user = Anon
       THEN /\ last' = Response("post_create", user, NoId, NoId, None, "302", LoginUrl, <<>>)
            /\ UNCHANGED <<posts, nextPost>>
       ELSE IF ~PostForm_is_valid(form)
       THEN /\ last' = Response("post_create", user, NoId, NoId, None, "200", NoUrl, <<>>)
            /\ UNCHANGED <<posts, nextPost>>
       ELSE /\ posts' = With(posts, nextPost, PostCreateView_form_valid(user, form))
            /\ nextPost' = nextPost + 1
            /\ last' = Response("post_create", user, nextPost, NoId, None, "302",
                                ProfileUrl(user), <<>>)
    /\ UNCHANGED <<users, categories, locations, comments, nextComment, now>>

\* POST /posts/{post_id}/edit/
PostUpdate(user, post_id, form) ==
    /\ IF post_id \notin DOMAIN posts
       THEN /\ last' = Response("post_edit", user, post_id, NoId, None, "404", NoUrl, <<>>)
            /\ UNCHANGED posts
       ELSE IF ~check_author_permission(posts[post_id], user)
       THEN /\ last' = Response("post_edit", user, post_id, NoId, None, "302",
                                PostDetailUrl(post_id), <<>>)
            /\ UNCHANGED posts
       ELSE IF user = Anon
       THEN /\ last' = Response("post_edit", user, post_id, NoId, None, "302", LoginUrl, <<>>)
            /\ UNCHANGED posts
       ELSE IF ~PostForm_is_valid(form)
       THEN /\ last' = Response("post_edit", user, post_id, NoId, None, "200", NoUrl, <<>>)
            /\ UNCHANGED posts
       ELSE /\ posts' = [posts EXCEPT ![post_id] = PostUpdateView_form_valid(@, form)]
            /\ last' = Response("post_edit", user, post_id, NoId, None, "302",
                                PostDetailUrl(post_id), <<>>)
    /\ UNCHANGED <<users, categories, locations, comments, nextPost, nextComment, now>>

\* POST /posts/{post_id}/delete/
PostDelete(user, post_id) ==
    /\ IF post_id \notin DOMAIN posts
       THEN /\ last' = Response("post_delete", user, post_id, NoId, None, "404", NoUrl, <<>>)
            /\ UNCHANGED <<posts, comments>>
       ELSE IF ~check_author_permission(posts[post_id], user)
       THEN /\ last' = Response("post_delete", user, post_id, NoId, None, "302",
                                PostDetailUrl(post_id), <<>>)
            /\ UNCHANGED <<posts, comments>>
       ELSE IF user = Anon
       THEN /\ last' = Response("post_delete", user, post_id, NoId, None, "302", LoginUrl, <<>>)
            /\ UNCHANGED <<posts, comments>>
       ELSE /\ posts' = Without(posts, {post_id})
            /\ comments' = Without(comments, CommentsOfPosts({post_id}))
            /\ last' = Response("post_delete", user, post_id, NoId, None, "302",
                                ProfileUrl(user), <<>>)
    /\ UNCHANGED <<users, categories, locations, nextPost, nextComment, now>>

\* ---------------------------------------------------------------- comment views
\* CommentCreateView.form_valid on a model whose created_at is not auto_now_add
CommentCreateView_form_valid_NoTimestamp(user, post_obj, text) ==
    [post |-> post_obj, author |-> user, text |-> text, created_at |-> 0]

\* CommentCreateView.form_valid: the new row; created_at is auto_now_add
CommentCreateView_form_valid(user, post_obj, text) ==
    [post |-> post_obj, author |-> user, text |-> text, created_at |-> now]

\* POST /posts/{post_id}/comment/
\* created_at is the one stored timestamp the views order by: the save takes
\* its time, so that the rows saved one after the other have increasing
\* created_at and the next request sees a later timezone.now().
CommentCreate(user, post_id, text) ==
    /\ nextComment <= MaxComments
    /\ IF get_post_data(post_id) = NoId
       THEN /\ last' = Response("comment_create", user, post_id, NoId, None, "404", NoUrl, <<>>)
            /\ UNCHANGED <<comments, nextComment, now>>
       ELSE IF user = Anon
       THEN /\ last' = Response("comment_create", user, post_id, NoId, None, "302",
                                LoginUrl, <<>>)
            /\ UNCHANGED <<comments, nextComment, now>>
       ELSE /\ comments' = With(comments, nextComment,
                                CommentCreateView_form_valid(user, get_post_data(post_id), text))
            /\ nextComment' = nextComment + 1
            /\ now' = now + 1
            /\ last' = Response("comment_create", user, post_id, nextComment, None, "302",
                                PostDetailUrl(post_id), <<>>)
    /\ UNCHANGED <<users, categories, locations, posts, nextPost>>

\* CommentMixin.dispatch: "404", "redirect" (not the author), "login", or
\* "view" when the request goes on to the update / delete view
CommentMixin_dispatch(user, comment_id) ==
    IF comment_id \notin DOMAIN comments THEN "404"
    ELSE IF ~check_author_permission(comments[comment_id], user) THEN "redirect"
    ELSE IF user = Anon THEN "login"
    ELSE "view"

\* redirect('blog:post_detail', id=kwargs['post_id']) of CommentMixin.dispatch
CommentMixin_redirect(post_id, comment_id) == PostDetailUrl(post_id)

\* CommentMixin.get_success_url
CommentMixin_get_success_url(post_id) == PostDetailUrl(post_id)

\* The response of a request that CommentMixin.dispatch answers itself
CommentMixin_response(op, user, post_id, comment_id) ==
    LET d == CommentMixin_dispatch(user, comment_id) IN
    IF d = "404" THEN Response(op, user, post_id, comment_id, None, "404", NoUrl, <<>>)
    ELSE IF d = "redirect"
    THEN Response(op, user, post_id, comment_id, None, "302",
                  CommentMixin_redirect(post_id, comment_id), <<>>)
    ELSE Response(op, user, post_id, comment_id, None, "302", LoginUrl, <<>>)

\* POST /posts/{post_id}/comment/{comment_id}/edit/
CommentUpdate(user, post_id, comment_id, text) ==
    /\ IF CommentMixin_dispatch(user, comment_id) # "view"
       THEN /\ last' = CommentMixin_response("comment_edit", user, post_id, comment_id)
            /\ UNCHANGED comments
       ELSE /\ comments' = [comments EXCEPT ![comment_id].text = text]
            /\ last' = Response("comment_edit", user, post_id, comment_id, None, "302",
                                CommentMixin_get_success_url(post_id), <<>>)
    /\ UNCHANGED <<users, categories, locations, posts, nextPost, nextComment, now>>

\* POST /posts/{post_id}/comment/{comment_id}/delete/
CommentDelete(user, post_id, comment_id) ==
    /\ IF CommentMixin_dispatch(user, comment_id) # "view"
       THEN /\ last' = CommentMixin_response("comment_delete", user, post_id, comment_id)
            /\ UNCHANGED comments
       ELSE /\ comments' = Without(comments, {comment_id})
            /\ last' = Response("comment_delete", user, post_id, comment_id, None, "302",
                                CommentMixin_get_success_url(post_id), <<>>)
    /\ UNCHANGED <<users, categories, locations, posts, nextPost, nextComment, now>>

\* ---------------------------------------------------------------- ORM operations
\* User.delete(): cascades to the user's posts and comments
DeleteUser(u) ==
    /\ u \in users
    /\ users' = users \ {u}
    /\ posts' = Without(posts, PostsOfUser(u))
    /\ comments' = Without(comments, CommentsOfUser(u) \cup CommentsOfPosts(PostsOfUser(u)))
    /\ last' = Response("delete_user", None, NoId, NoId, u, None, NoUrl, <<>>)
    /\ UNCHANGED <<categories, locations, nextPost, nextComment, now>>

\* Category.delete(): nulls the reference of the dependent posts
DeleteCategory(c) ==
    /\ c \in DOMAIN categories
    /\ categories' = Without(categories, {c})
    /\ posts' = [p \in DOMAIN posts |-> category_set_null(posts[p], c)]
    /\ last' = Response("delete_category", None, NoId, NoId, c, None, NoUrl, <<>>)
    /\ UNCHANGED <<users, locations, comments, nextPost, nextComment, now>>

\* Location.delete(): nulls the reference of the dependent posts
DeleteLocation(l) ==
    /\ l \in locations
    /\ locations' = locations \ {l}
    /\ posts' = [p \in DOMAIN posts |-> location_set_null(posts[p], l)]
    /\ last' = Response("delete_location", None, NoId, NoId, l, None, NoUrl, <<>>)
    /\ UNCHANGED <<users, categories, comments, nextPost, nextComment, now>>

\* BaseModel.is_published of a Post, set by an editor
SetPostPublished(p, b) ==
    /\ p \in DOMAIN posts
    /\ posts[p].is_published # b
    /\ posts' = [posts EXCEPT ![p].is_published = b]
    /\ last' = Response("set_post_published", None, p, NoId, None, None, NoUrl, <<>>)
    /\ UNCHANGED <<users, categories, locations, comments, nextPost, nextComment, now>>

\* BaseModel.is_published of a Category, set by an editor
SetCategoryPublished(c, b) ==
    /\ c \in DOMAIN categories
    /\ categories[c] # b
    /\ categories' = [categories EXCEPT ![c] = b]
    /\ last' = Response("set_category_published", None, NoId, NoId, c, None, NoUrl, <<>>)
    /\ UNCHANGED <<users, locations, posts, comments, nextPost, nextComment, now>>

\* ---------------------------------------------------------------- read views
\* IndexListView.get_queryset: the rows of the global feed
IndexListView_get_queryset ==
    {p \in DOMAIN posts :
        /\ posts[p].is_published
        /\ category__is_published(posts[p])
        /\ posts[p].pub_date <= now}

\* ProfileListView.get_queryset: the rows of the profile page of `username`
ProfileListView_get_queryset(username) ==
    {p \in DOMAIN posts : posts[p].author = username}

\* get_object_or_404(Category, slug) with the is_published=True filter left out
CategoryPostsListView_category_NoPublishedFilter(slug) ==
    slug \in DOMAIN categories

\* CategoryPostsListView.get_queryset: get_object_or_404(Category, slug, is_published=True)
CategoryPostsListView_category(slug) ==
    slug \in DOMAIN categories /\ categories[slug]

\* CategoryPostsListView.get_queryset: the rows of the category page
CategoryPostsListView_get_queryset(slug) ==
    {p \in DOMAIN posts :
        /\ posts[p].category = slug
        /\ posts[p].is_published
        /\ posts[p].pub_date <= now}

\* PostDetailView.get_object: "200" with the post, "404" (Http404), or "500"
\* (post.category is None: AttributeError on post.category.is_published)
PostDetailView_get_object(user, id) ==
    IF id \notin DOMAIN posts THEN "404"
    ELSE LET post == posts[id] IN
         IF ~post.is_published
         THEN (IF user # post.author THEN "404" ELSE "200")
         ELSE IF post.category = None
         THEN "500"
         ELSE IF ~categories[post.category] \/ post.pub_date > now
         THEN (IF user # post.author THEN "404" ELSE "200")
         ELSE "200"

\* The page of a listing: ordered, paginated, annotated with the comment counts
ListingPages(S) == {annotate(paginate(s)) : s \in order_by_pub_date(S)}

\* GET /
Index(user) ==
    /\ \E page \in ListingPages(IndexListView_get_queryset) :
          last' = Response("index", user, NoId, NoId, None, "200", NoUrl, page)
    /\ UNCHANGED db

\* GET /profile/{username}/
Profile(user, username) ==
    /\ IF username \notin users
       THEN last' = Response("profile", user, NoId, NoId, username, "404", NoUrl, <<>>)
       ELSE \E page \in ListingPages(ProfileListView_get_queryset(username)) :
               last' = Response("profile", user, NoId, NoId, username, "200", NoUrl, page)
    /\ UNCHANGED db

\* GET /category/{slug}/
CategoryPage(user, slug) ==
    /\ IF ~CategoryPostsListView_category(slug)
       THEN last' = Response("category", user, NoId, NoId, slug, "404", NoUrl, <<>>)
       ELSE \E page \in ListingPages(CategoryPostsListView_get_queryset(slug)) :
               last' = Response("category", user, NoId, NoId, slug, "200", NoUrl, page)
    /\ UNCHANGED db

\* GET /posts/{id}/
PostDetail(user, id) ==
    /\ last' = Response("post_detail", user, id, NoId, None,
                        PostDetailView_get_object(user, id), NoUrl,
                        IF PostDetailView_get_object(user, id) = "200"
                        THEN <<[id |-> id, comment_count |-> comment_count(id)]>>
                        ELSE <<>>)
    /\ UNCHANGED db

\* ---------------------------------------------------------------- specification
\* The database after the migrations and the fixtures: the users, the
\* categories and the location exist, nothing is posted yet.
Init ==
    /\ users = Users
    /\ categories = [c \in Slugs |-> TRUE]
    /\ locations = Locs
    /\ posts = <<>>
    /\ comments = <<>>
    /\ nextPost = 1
    /\ nextComment = 1
    /\ now = 0
    /\ last = NoRequest

\* timezone.now() moves on between requests
Tick ==
    /\ now < MaxTime
    /\ now' = now + 1
    /\ last' = NoRequest
    /\ UNCHANGED <<users, categories, locations, posts, comments, nextPost, nextComment>>

\* Every request and every ORM operation, with every input.
Next ==
    \/ Tick
    \/ \E u \in Requesters, f \in PostForms : PostCreate(u, f)
    \/ \E u \in Requesters, p \in PostIds, f \in PostForms : PostUpdate(u, p, f)
    \/ \E u \in Requesters, p \in PostIds : PostDelete(u, p)
    \/ \E u \in Requesters, p \in PostIds, t \in Texts : CommentCreate(u, p, t)
    \/ \E u \in Requesters, p \in PostIds, c \in CommentIds, t \in Texts : CommentUpdate(u, p, c, t)
    \/ \E u \in Requesters, p \in PostIds, c \in CommentIds : CommentDelete(u, p, c)
    \/ \E u \in Users : DeleteUser(u)
    \/ \E c \in Slugs : DeleteCategory(c)
    \/ \E l \in Locs : DeleteLocation(l)
    \/ \E p \in PostIds, b \in BOOLEAN : SetPostPublished(p, b)
    \/ \E c \in Slugs, b \in BOOLEAN : SetCategoryPublished(c, b)
    \/ \E u \in Requesters : Index(u)
    \/ \E u \in Requesters, n \in Users : Profile(u, n)
    \/ \E u \in Requesters, c \in Slugs : CategoryPage(u, c)
    \/ \E u \in Requesters, p \in PostIds : PostDetail(u, p)

Spec == Init /\ [][Next]_vars

\* The four specifications below run the same actions from the same Init; each
\* lets arrive the requests its claims are about and fixes the form fields
\* that these requests never read.

\* Visibility of posts: posts are created, edited, deleted, published and
\* unpublished, categories unpublished and deleted; every page is read.
ReadForms == {f \in PostForms : f.text = "a" /\ f.location = None}

NextRead ==
    \/ Tick
    \/ \E u \in Requesters, f \in ReadForms : PostCreate(u, f)
    \/ \E u \in Requesters, p \in PostIds, f \in ReadForms : PostUpdate(u, p, f)
    \/ \E u \in Requesters, p \in PostIds : PostDelete(u, p)
    \/ \E c \in Slugs : DeleteCategory(c)
    \/ \E p \in PostIds, b \in BOOLEAN : SetPostPublished(p, b)
    \/ \E c \in Slugs, b \in BOOLEAN : SetCategoryPublished(c, b)
    \/ \E u \in Requesters : Index(u)
    \/ \E u \in Requesters, n \in Users : Profile(u, n)
    \/ \E u \in Requesters, c \in Slugs : CategoryPage(u, c)
    \/ \E u \in Requesters, p \in PostIds : PostDetail(u, p)

SpecRead == Init /\ [][NextRead]_vars

\* Ownership: posts and comments are created, edited and deleted by anybody,
\* users are deleted.
EditForms == {f \in PostForms : f.pub_date = 0 /\ f.category = "c1" /\ f.location = None}

NextEdit ==
    \/ \E u \in Requesters, f \in EditForms : PostCreate(u, f)
    \/ \E u \in Requesters, p \in PostIds, f \in EditForms : PostUpdate(u, p, f)
    \/ \E u \in Requesters, p \in PostIds : PostDelete(u, p)
    \/ \E u \in Requesters, p \in PostIds, t \in Texts : CommentCreate(u, p, t)
    \/ \E u \in Requesters, p \in PostIds, c \in CommentIds, t \in Texts : CommentUpdate(u, p, c, t)
    \/ \E u \in Requesters, p \in PostIds, c \in CommentIds : CommentDelete(u, p, c)
    \/ \E u \in Users : DeleteUser(u)

SpecEdit == Init /\ [][NextEdit]_vars

\* Commenting: posts of one category are created, published and unpublished,
\* the category unpublished and deleted; comments are created, the feed and
\* the posts are read.
CommentForms == {f \in PostForms : f.text = "a" /\ f.category = "c1" /\ f.location = None}

NextComment ==
    \/ Tick
    \/ \E u \in Requesters, f \in CommentForms : PostCreate(u, f)
    \/ DeleteCategory("c1")
    \/ \E p \in PostIds, b \in BOOLEAN : SetPostPublished(p, b)
    \/ \E b \in BOOLEAN : SetCategoryPublished("c1", b)
    \/ \E u \in Requesters, p \in PostIds : CommentCreate(u, p, "a")
    \/ \E u \in Requesters : Index(u)
    \/ \E u \in Requesters, p \in PostIds : PostDetail(u, p)

SpecComment == Init /\ [][NextComment]_vars

\* Deletion: posts and comments are created and deleted, users, categories
\* and locations are deleted.
DeleteForms == {f \in PostForms : f.text = "a" /\ f.pub_date = 0}

NextDelete ==
    \/ \E u \in Requesters, f \in DeleteForms : PostCreate(u, f)
    \/ \E u \in Requesters, p \in PostIds : PostDelete(u, p)
    \/ \E u \in Requesters, p \in PostIds : CommentCreate(u, p, "a")
    \/ \E u \in Requesters, p \in PostIds, c \in CommentIds : CommentDelete(u, p, c)
    \/ \E u \in Users : DeleteUser(u)
    \/ \E c \in Slugs : DeleteCategory(c)
    \/ \E l \in Locs : DeleteLocation(l)

SpecDelete == Init /\ [][NextDelete]_vars

\* ================================================================ claims
\* The public visibility filter in the reading the code gives it: published,
\* pub_date reached, and a category that exists and is published.
PassesPublicFilter(post) ==
    /\ post.is_published
    /\ post.pub_date <= now
    /\ post.category \in DOMAIN categories
    /\ categories[post.category]

\* The post's category exists and is unpublished.
CategoryUnpublished(post) ==
    post.category \in DOMAIN categories /\ ~categories[post.category]

\* The post is hidden from the public for one of the three reasons.
Hidden(post) ==
    ~post.is_published \/ post.pub_date > now \/ CategoryUnpublished(post)

\* The identifiers of the posts a page shows.
BodyIds(body) == {body[i].id : i \in 1..Len(body)}

\* The number of comments of post p among the rows cs.
CountIn(cs, p) == Cardinality({c \in DOMAIN cs : cs[c].post = p})

\* C1: a detail fetch of a post that is unpublished, or dated in the future,
\* or in an unpublished category, by anybody but its author answers 404 and
\* shows nothing.
C1_HiddenPostAnswers404 ==
    (last.op = "post_detail" /\ last.post_id \in DOMAIN posts) =>
        ((last.user # posts[last.post_id].author /\ Hidden(posts[last.post_id]))
            => (last.status = "404" /\ last.body = <<>>))

\* C2: a detail fetch of a post by its author answers 200 with the post,
\* whatever its is_published, its pub_date and its category (none included).
C2_AuthorAlwaysSeesOwnPost ==
    (/\ last.op = "post_detail"
     /\ last.post_id \in DOMAIN posts
     /\ last.user = posts[last.post_id].author)
        => (last.status = "200" /\ BodyIds(last.body) = {last.post_id})

\* A post without category that is published and whose pub_date is reached.
NoCategoryPublic(p) ==
    /\ p \in DOMAIN posts
    /\ posts[p].category = None
    /\ posts[p].is_published
    /\ posts[p].pub_date <= now

\* C3: a published post without category whose pub_date is reached is
\* visible to the public: its detail fetch by a non-owner answers 200, the
\* global feed lists it, and an authenticated user's comment on it is created.
C3_NoCategoryPostIsPublic ==
    /\ (/\ last.op = "post_detail"
        /\ NoCategoryPublic(last.post_id)
        /\ last.user # posts[last.post_id].author)
            => last.status = "200"
    /\ last.op = "index"
            => \A p \in DOMAIN posts : NoCategoryPublic(p) => p \in BodyIds(last.body)
    /\ (/\ last.op = "comment_create"
        /\ last.user # Anon
        /\ NoCategoryPublic(last.post_id))
            => (last.status = "302" /\ last.comment_id \in DOMAIN comments)

\* C4: no listing (global feed, profile page, category page) shows, to any
\* viewer, a post that is unpublished, dated in the future or in an
\* unpublished category.
C4_ListingsShowOnlyPublicPosts ==
    last.op \in {"index", "profile", "category"} =>
        \A p \in BodyIds(last.body) : ~Hidden(posts[p])

\* C5: the page of an unpublished category answers 404 to every viewer and
\* shows nothing; the page of a published category shows exactly the posts of
\* the category that are published and whose pub_date is reached.
C5_CategoryPage ==
    (last.op = "category" /\ last.arg \in DOMAIN categories) =>
        IF ~categories[last.arg]
        THEN last.status = "404" /\ last.body = <<>>
        ELSE /\ last.status = "200"
             /\ BodyIds(last.body) =
                    {p \in DOMAIN posts : /\ posts[p].category = last.arg
                                          /\ posts[p].is_published
                                          /\ posts[p].pub_date <= now}
             /\ Len(last.body) = Cardinality(BodyIds(last.body))

\* C5 happens: the author of a post in an unpublished category asked for the
\* category's page and got 404.
C5_Witness ==
    /\ last.op = "category"
    /\ last.status = "404"
    /\ last.arg \in DOMAIN categories
    /\ \E p \in DOMAIN posts : posts[p].category = last.arg /\ posts[p].author = last.user

\* The fields of a post that its form carries and no other operation writes.
PostContent(post) == [text |-> post.text, pub_date |-> post.pub_date]

\* C6: an edit or delete request by anybody but the author leaves the post or
\* comment as it is; a post's or comment's content changes only by its
\* author's edit, and it disappears only by its author's delete or with its
\* post or its author.
C6_OnlyAuthorMutates ==
    [][/\ \A p \in DOMAIN posts :
            /\ (/\ last'.op \in {"post_edit", "post_delete"}
                /\ last'.post_id = p
                /\ last'.user # posts[p].author)
                    => (p \in DOMAIN posts' /\ posts'[p] = posts[p])
            /\ (p \in DOMAIN posts' /\ PostContent(posts'[p]) # PostContent(posts[p]))
                    => (/\ last'.op = "post_edit"
                        /\ last'.post_id = p
                        /\ last'.user = posts[p].author)
            /\ p \notin DOMAIN posts'
                    => \/ /\ last'.op = "post_delete"
                          /\ last'.post_id = p
                          /\ last'.user = posts[p].author
                       \/ posts[p].author \notin users'
       /\ \A c \in DOMAIN comments :
            /\ (/\ last'.op \in {"comment_edit", "comment_delete"}
                /\ last'.comment_id = c
                /\ last'.user # comments[c].author)
                    => (c \in DOMAIN comments' /\ comments'[c] = comments[c])
            /\ (c \in DOMAIN comments' /\ comments'[c] # comments[c])
                    => (/\ last'.op = "comment_edit"
                        /\ last'.comment_id = c
                        /\ last'.user = comments[c].author)
            /\ c \notin DOMAIN comments'
                    => \/ /\ last'.op = "comment_delete"
                          /\ last'.comment_id = c
                          /\ last'.user = comments[c].author
                       \/ comments[c].post \notin DOMAIN posts'
                       \/ comments[c].author \notin users'
      ]_vars

\* C6 happens: somebody who is not the author asked to delete a comment, and
\* the comment is still there.
C6_Witness ==
    /\ last.op = "comment_delete"
    /\ last.comment_id \in DOMAIN comments
    /\ last.user # comments[last.comment_id].author
    /\ last.user # Anon

\* C7: an edit or delete request by anybody but the author is answered by a
\* redirect to the detail view of the post itself (for a post) or of the post
\* the comment belongs to (for a comment, whatever post_id the path carries).
C7_NonAuthorIsRedirectedToParent ==
    /\ (/\ last.op \in {"post_edit", "post_delete"}
        /\ last.post_id \in DOMAIN posts
        /\ last.user # posts[last.post_id].author)
            => (last.status = "302" /\ last.to = PostDetailUrl(last.post_id))
    /\ (/\ last.op \in {"comment_edit", "comment_delete"}
        /\ last.comment_id \in DOMAIN comments
        /\ last.user # comments[last.comment_id].author)
            => (/\ last.status = "302"
                /\ last.to = PostDetailUrl(comments[last.comment_id].post))

\* C8: a comment is created only on a post that passes the public filter at
\* the time of the request and only for an authenticated requester; on a post
\* that fails the filter the request answers 404, for the post's author too,
\* and for an anonymous requester nothing is created; the comments are then
\* unchanged.
C8_CommentOnlyOnPublicPost ==
    [][/\ DOMAIN comments' # DOMAIN comments
            => (/\ last'.op = "comment_create"
                /\ last'.user # Anon
                /\ last'.post_id \in DOMAIN posts
                /\ PassesPublicFilter(posts[last'.post_id]))
       /\ (/\ last'.op = "comment_create"
           /\ last'.post_id \in DOMAIN posts
           /\ ~PassesPublicFilter(posts[last'.post_id]))
            => (last'.status = "404" /\ comments' = comments)
       /\ (last'.op = "comment_create" /\ last'.user = Anon)
            => comments' = comments
      ]_vars

\* C8 happens: the author of a post that fails the filter asked to comment on
\* it and got 404.
C8_Witness ==
    /\ last.op = "comment_create"
    /\ last.status = "404"
    /\ last.post_id \in DOMAIN posts
    /\ last.user = posts[last.post_id].author
    /\ ~PassesPublicFilter(posts[last.post_id])

\* C9: a successful comment creation on post P by user U adds exactly one
\* comment: the count of P grows by one, the counts of the other posts and
\* the other comments stay, the new comment has post P and author U and is
\* the last one of P in the comment order (created_at ascending).
C9_CommentCreateAppendsOne ==
    [][(last'.op = "comment_create" /\ last'.comment_id # NoId)
            => /\ last'.comment_id \notin DOMAIN comments
               /\ DOMAIN comments' = DOMAIN comments \cup {last'.comment_id}
               /\ \A c \in DOMAIN comments : comments'[c] = comments[c]
               /\ CountIn(comments', last'.post_id) = CountIn(comments, last'.post_id) + 1
               /\ \A q \in DOMAIN posts \ {last'.post_id} :
                        CountIn(comments', q) = CountIn(comments, q)
               /\ comments'[last'.comment_id].post = last'.post_id
               /\ comments'[last'.comment_id].author = last'.user
               /\ \A s \in comment_ordering(comments', {c \in DOMAIN comments' :
                                                comments'[c].post = last'.post_id}) :
                        s[Len(s)] = last'.comment_id
      ]_vars

\* C9 happens: a second comment was created on a post while another post
\* exists.
C9_Witness ==
    /\ last.op = "comment_create"
    /\ last.comment_id \in DOMAIN comments
    /\ CountIn(comments, last.post_id) = 2
    /\ Cardinality(DOMAIN posts) = 2

\* Every comment refers to an existing post and an existing author, every post
\* to an existing author and to an existing category / location or to none.
RefIntegrity(us, cats, locs, ps, cs) ==
    /\ \A c \in DOMAIN cs : cs[c].post \in DOMAIN ps /\ cs[c].author \in us
    /\ \A p \in DOMAIN ps :
            /\ ps[p].author \in us
            /\ ps[p].category \in (DOMAIN cats) \cup {None}
            /\ ps[p].location \in locs \cup {None}

\* C10: deleting a user deletes the user's posts and comments, deleting a
\* post deletes its comments, deleting a category or a location deletes no
\* post and no comment; after every step the references are intact.
C10_ReferentialIntegrity ==
    [][/\ RefIntegrity(users', categories', locations', posts', comments')
       /\ last'.op = "delete_user"
            => /\ \A p \in DOMAIN posts' : posts'[p].author # last'.arg
               /\ \A c \in DOMAIN comments' : comments'[c].author # last'.arg
               /\ \A p \in DOMAIN posts : posts[p].author # last'.arg => p \in DOMAIN posts'
       /\ \A p \in DOMAIN posts :
            p \notin DOMAIN posts' => \A c \in DOMAIN comments' : comments'[c].post # p
       /\ last'.op \in {"delete_category", "delete_location"}
            => /\ DOMAIN posts' = DOMAIN posts
               /\ comments' = comments
               /\ \A p \in DOMAIN posts :
                    /\ posts'[p].category \in {posts[p].category, None}
                    /\ posts'[p].location \in {posts[p].location, None}
      ]_vars

\* C10 happens: a category was deleted, and a post that lost it is still
\* there with a comment on it.
C10_Witness ==
    /\ last.op = "delete_category"
    /\ \E c \in DOMAIN comments : posts[comments[c].post].category = None
====
